---------------------------- MODULE Spec2Model ----------------------------
(***************************************************************************)
(* Client-side lifecycle and RPC protocol of the Microsandbox Python SDK:  *)
(* BaseSandbox (start, stop, the scoped create), the operational sub-APIs  *)
(* (Command.run, Metrics, PythonSandbox.run, NodeSandbox.run).             *)
(*                                                                         *)
(* Strings are sequences of words: "Failed to start sandbox: boom" is      *)
(* <<"Failed","to","start","sandbox:","boom">>; f-string formatting is     *)
(* concatenation and Python's `in` on strings is contiguous containment.   *)
(***************************************************************************)
EXTENDS Naturals, Sequences, FiniteSets, TLC

\* The caller's own code stops calling once this many requests were sent.
MaxRequests == 3

---------------------------------------------------------------------------
(* Strings *)

\* Faulty variant: str.startswith instead of `in`
StartsWith(hay, needle) ==
    /\ Len(needle) <= Len(hay)
    /\ SubSeq(hay, 1, Len(needle)) = needle

\* needle in hay (str.__contains__), on word sequences
Contains(hay, needle) ==
    \E i \in 0..Len(hay) :
        /\ i + Len(needle) <= Len(hay)
        /\ SubSeq(hay, i + 1, i + Len(needle)) = needle

\* the marker tested by start: "timed out waiting"
TimedOutMarker == <<"timed", "out", "waiting">>

---------------------------------------------------------------------------
(* Exceptions *)

Exc(kind, text) == [kind |-> kind, text |-> text]
NoExc == Exc("none", <<>>)

\* str(e) of an exception: its message (KeyError shows the repr of the key)
StrOf(e) == e.text

NotStartedText == <<"Sandbox", "is", "not", "started.", "Call", "start()", "first.">>
NotStartedError == Exc("RuntimeError", NotStartedText)

\* self._session.post(...) when self._session is None
NoneSessionError == Exc("AttributeError", <<"'NoneType'", "object", "has", "no", "attribute", "'post'">>)

---------------------------------------------------------------------------
(* JSON values and HTTP exchanges *)

\* A metrics snapshot (a JSON object); each field holds "absent" (no such
\* key), "null", or the value written as a word.
Snapshot(name, running, cpu, mem, disk) ==
    [name |-> name, running |-> running, cpu_usage |-> cpu,
     memory_usage |-> mem, disk_usage |-> disk]
EmptySnapshot == Snapshot("absent", "absent", "absent", "absent", "absent")

\* A JSON value: a string (its words), an object (with its "sandboxes"
\* list, when it has one), or no value at all (the key is absent).
JStr(toks) == [type |-> "str", toks |-> toks, hasSandboxes |-> FALSE, sandboxes |-> <<>>]
JDict == [type |-> "dict", toks |-> <<>>, hasSandboxes |-> FALSE, sandboxes |-> <<>>]
JSandboxes(list) == [type |-> "dict", toks |-> <<>>, hasSandboxes |-> TRUE, sandboxes |-> list]
JAbsent == [type |-> "absent", toks |-> <<>>, hasSandboxes |-> FALSE, sandboxes |-> <<>>]

SandboxName == "sb"

Results ==
    { JStr(<<"Sandbox", "started">>),
      JStr(<<"timed", "out", "waiting", "for", "sandbox">>),
      JStr(<<"Error:", "timed", "out", "waiting">>),
      JStr(<<"timed", "out">>),
      JDict,
      JSandboxes(<<>>),
      JSandboxes(<<Snapshot(SandboxName, "true", "0.0", "null", "1024")>>) }

Msgs == { <<"boom">>, <<"no", "such", "sandbox">> }

\* A decoded JSON object body: the keys "error" (an object with or without
\* "message") and "result" are each present or absent.
ObjectBodies ==
    { [json |-> "object", hasError |-> FALSE, hasMessage |-> FALSE, message |-> <<>>,
       hasResult |-> r.type # "absent", result |-> r] : r \in Results \cup {JAbsent} }
    \cup
    { [json |-> "object", hasError |-> TRUE, hasMessage |-> TRUE, message |-> m,
       hasResult |-> r.type # "absent", result |-> r] : m \in Msgs, r \in {JAbsent, JDict} }
    \cup
    { [json |-> "object", hasError |-> TRUE, hasMessage |-> FALSE, message |-> <<>>,
       hasResult |-> FALSE, result |-> JAbsent] }

\* A body response.json() cannot decode: wrong content type
\* (aiohttp.ContentTypeError, a ClientError) or invalid JSON
\* (json.JSONDecodeError, a ValueError).
UndecodableBody(how) ==
    [json |-> how, hasError |-> FALSE, hasMessage |-> FALSE, message |-> <<>>,
     hasResult |-> FALSE, result |-> JAbsent]

\* No body was read (the exchange failed, or the status was rejected first)
NoBody == UndecodableBody("unread")

Bodies == ObjectBodies \cup { UndecodableBody("bad_content_type"), UndecodableBody("bad_json") }

Statuses == {200, 201, 500}

BodyTexts == { <<"Internal", "Server", "Error">> }

\* Transport failures of session.post: a connection error (ClientError), a
\* sock/connect timeout (ServerTimeoutError: ClientError and
\* asyncio.TimeoutError), the total timeout (plain asyncio.TimeoutError).
TransportFailures == {"client_error", "client_timeout", "total_timeout"}

Responses ==
    { [kind |-> "http", status |-> 200, text |-> <<>>, body |-> b] : b \in Bodies }
    \cup
    { [kind |-> "http", status |-> s, text |-> t, body |-> NoBody] :
        s \in Statuses \ {200}, t \in BodyTexts }
    \cup
    { [kind |-> k, status |-> 0, text |-> <<"Connection", "reset">>,
       body |-> NoBody] : k \in TransportFailures }

NoResponse == [kind |-> "none", status |-> 0, text |-> <<>>, body |-> NoBody]

---------------------------------------------------------------------------
(* How each call site turns one HTTP exchange into a return or a raise. *)

\* What `async with session.post(...) as response` and `response.json()`
\* raise by themselves, before any check of the call site: "none" when a
\* JSON object was decoded from a response.
TransportExc(resp) ==
    CASE resp.kind = "client_error"   -> Exc("ClientError", resp.text)
      [] resp.kind = "client_timeout" -> Exc("ServerTimeoutError", resp.text)
      [] resp.kind = "total_timeout"  -> Exc("asyncio.TimeoutError", <<>>)
      [] OTHER -> NoExc

DecodeExc(body) ==
    CASE body.json = "bad_content_type" -> Exc("ContentTypeError", <<"Attempt", "to", "decode", "JSON", "with", "unexpected", "mimetype">>)
      [] body.json = "bad_json"         -> Exc("JSONDecodeError", <<"Expecting", "value">>)
      [] OTHER -> NoExc

\* isinstance(e, aiohttp.ClientError)
IsClientError(e) == e.kind \in {"ClientError", "ServerTimeoutError", "ContentTypeError"}

\* isinstance(e, asyncio.TimeoutError)
IsAsyncioTimeout(e) == e.kind \in {"ServerTimeoutError", "asyncio.TimeoutError"}

\* Faulty variant: the "error" branch reports the prefix without the server's message
BlockExcNoMessage(resp, prefix) ==
    IF TransportExc(resp) # NoExc THEN TransportExc(resp)
    ELSE IF resp.status # 200 THEN Exc("RuntimeError", prefix \o resp.text)
    ELSE IF DecodeExc(resp.body) # NoExc THEN DecodeExc(resp.body)
    ELSE IF resp.body.hasError THEN Exc("RuntimeError", prefix)
    ELSE NoExc

\* The body of the `async with` block shared by the five call sites: the
\* status check, the decode, the "error" check.  `prefix` is the call
\* site's message prefix.  Returns the exception raised inside the block.
BlockExc(resp, prefix) ==
    IF TransportExc(resp) # NoExc THEN TransportExc(resp)
    ELSE IF resp.status # 200 THEN Exc("RuntimeError", prefix \o resp.text)
    ELSE IF DecodeExc(resp.body) # NoExc THEN DecodeExc(resp.body)
    ELSE IF resp.body.hasError THEN
        IF resp.body.hasMessage
        THEN Exc("RuntimeError", prefix \o resp.body.message)
        ELSE Exc("KeyError", <<"'message'">>)
    ELSE NoExc

\* response_data.get("result", default)
GetResult(body, default) == IF body.hasResult THEN body.result ELSE default

StartPrefix == <<"Failed", "to", "start", "sandbox:">>
StopPrefix == <<"Failed", "to", "stop", "sandbox:">>
CommunicatePrefix == <<"Failed", "to", "communicate", "with", "Microsandbox", "server:">>

StartTimeoutText(timeout) ==
    <<"Timed", "out", "waiting", "for", "sandbox", "to", "start", "after",
      ToString(timeout), "seconds">>

\* Faulty variant: start writes the flag before it looks at the response
StartHandleFlagFirst(resp, timeout) ==
    LET e == BlockExc(resp, StartPrefix)
    IN  [exc |-> IF e = NoExc THEN NoExc
                 ELSE IF IsClientError(e) THEN Exc("RuntimeError", CommunicatePrefix \o StrOf(e))
                 ELSE e,
         warned |-> FALSE, setFlag |-> TRUE]

\* Faulty variant: start catches every exception and reports a
\* communication failure, timeouts included
StartHandleCatchAll(resp, timeout) ==
    LET e == BlockExc(resp, StartPrefix)
        result == GetResult(resp.body, JStr(<<>>))
    IN  IF e = NoExc THEN
            [exc |-> NoExc,
             warned |-> result.type = "str" /\ Contains(result.toks, TimedOutMarker),
             setFlag |-> TRUE]
        ELSE [exc |-> Exc("RuntimeError", CommunicatePrefix \o StrOf(e)),
              warned |-> FALSE, setFlag |-> FALSE]

\* BaseSandbox.start, from the response on: the exception it raises (NoExc
\* when it returns), whether it warns, whether it writes _is_started = True.
StartHandle(resp, timeout) ==
    LET e == BlockExc(resp, StartPrefix)
        result == GetResult(resp.body, JStr(<<>>))
    IN  IF e = NoExc THEN
            [exc |-> NoExc,
             warned |-> result.type = "str" /\ Contains(result.toks, TimedOutMarker),
             setFlag |-> TRUE]
        ELSE IF IsClientError(e) THEN
            [exc |-> IF IsAsyncioTimeout(e)
                     THEN Exc("TimeoutError", StartTimeoutText(timeout))
                     ELSE Exc("RuntimeError", CommunicatePrefix \o StrOf(e)),
             warned |-> FALSE, setFlag |-> FALSE]
        ELSE [exc |-> e, warned |-> FALSE, setFlag |-> FALSE]

\* Faulty variant: stop clears the flag whatever the response
StopHandleFlagFirst(resp) ==
    LET e == BlockExc(resp, StopPrefix)
    IN  [exc |-> IF e = NoExc THEN NoExc
                 ELSE IF IsClientError(e) THEN Exc("RuntimeError", CommunicatePrefix \o StrOf(e))
                 ELSE e,
         warned |-> FALSE, setFlag |-> TRUE]

\* BaseSandbox.stop, from the response on: the exception it raises and
\* whether it writes _is_started = False.
StopHandle(resp) ==
    LET e == BlockExc(resp, StopPrefix)
    IN  IF e = NoExc THEN [exc |-> NoExc, warned |-> FALSE, setFlag |-> TRUE]
        ELSE IF IsClientError(e) THEN
            [exc |-> Exc("RuntimeError", CommunicatePrefix \o StrOf(e)),
             warned |-> FALSE, setFlag |-> FALSE]
        ELSE [exc |-> e, warned |-> FALSE, setFlag |-> FALSE]

\* Python value of a JSON scalar written as a word (None, True, False,
\* numbers as they are)
PyValue(w) ==
    CASE w = "null" -> "None"
      [] w = "true" -> "True"
      [] w = "false" -> "False"
      [] OTHER -> w

\* Faulty variant: `metrics.get(key) or default`, which drops falsy values
GetFieldFalsy(field, default) ==
    IF field \in {"absent", "null", "0", "0.0", "false"} THEN default ELSE PyValue(field)

\* dict.get(key) / dict.get(key, default) on a snapshot field
GetField(field, default) == IF field = "absent" THEN default ELSE PyValue(field)

\* What a call returns: None, a wrapper around the raw result
\* (CommandExecution, Execution), a snapshot dict, or one projected value.
Ret(kind, data, snap, value) == [kind |-> kind, data |-> data, snap |-> snap, value |-> value]
RetNone == Ret("None", JAbsent, EmptySnapshot, "None")
NoRet == Ret("raised", JAbsent, EmptySnapshot, "None")

CommandPrefix == <<"Failed", "to", "execute", "command:">>
CodePrefix == <<"Failed", "to", "execute", "code:">>
MetricsPrefix == <<"Failed", "to", "get", "sandbox", "metrics:">>

MetricsAccessors == {"metrics.all", "metrics.cpu", "metrics.memory", "metrics.disk", "metrics.is_running"}
OperationalCalls == {"command.run", "repl.run"} \cup MetricsAccessors

\* Command.run, from the response on
CommandHandle(resp) ==
    LET e == BlockExc(resp, CommandPrefix)
    IN  IF e = NoExc THEN
            [exc |-> NoExc, ret |-> Ret("CommandExecution", GetResult(resp.body, JDict), EmptySnapshot, "None")]
        ELSE IF IsClientError(e) THEN
            [exc |-> Exc("RuntimeError", CommandPrefix \o StrOf(e)), ret |-> NoRet]
        ELSE [exc |-> e, ret |-> NoRet]

\* PythonSandbox.run / NodeSandbox.run, from the response on
ReplHandle(resp) ==
    LET e == BlockExc(resp, CodePrefix)
    IN  IF e = NoExc THEN
            [exc |-> NoExc, ret |-> Ret("Execution", GetResult(resp.body, JDict), EmptySnapshot, "None")]
        ELSE IF IsClientError(e) THEN
            [exc |-> Exc("RuntimeError", CodePrefix \o StrOf(e)), ret |-> NoRet]
        ELSE [exc |-> e, ret |-> NoRet]

\* Faulty variant: sandboxes[0] without the `if not sandboxes` test
GetMetricsHandleNoEmptyTest(resp) ==
    LET e == BlockExc(resp, MetricsPrefix)
        result == GetResult(resp.body, JDict)
    IN  IF e # NoExc THEN
            [exc |-> Exc("RuntimeError", MetricsPrefix \o StrOf(e)), snap |-> EmptySnapshot]
        ELSE IF result.type # "dict" THEN
            [exc |-> Exc("RuntimeError", MetricsPrefix \o <<"'str'", "object", "has", "no", "attribute", "'get'">>),
             snap |-> EmptySnapshot]
        ELSE IF ~result.hasSandboxes \/ result.sandboxes = <<>> THEN
            [exc |-> Exc("RuntimeError", MetricsPrefix \o <<"list", "index", "out", "of", "range">>),
             snap |-> EmptySnapshot]
        ELSE [exc |-> NoExc, snap |-> result.sandboxes[1]]

\* Metrics._get_metrics, from the response on: every exception raised in
\* the try block, its own RuntimeErrors included, is caught by
\* `except Exception` and wrapped again.
GetMetricsHandle(resp) ==
    LET e == BlockExc(resp, MetricsPrefix)
        result == GetResult(resp.body, JDict)
    IN  IF e # NoExc THEN
            [exc |-> Exc("RuntimeError", MetricsPrefix \o StrOf(e)), snap |-> EmptySnapshot]
        ELSE IF result.type # "dict" THEN
            \* result.get on a str
            [exc |-> Exc("RuntimeError", MetricsPrefix \o <<"'str'", "object", "has", "no", "attribute", "'get'">>),
             snap |-> EmptySnapshot]
        ELSE IF ~result.hasSandboxes \/ result.sandboxes = <<>> THEN
            [exc |-> NoExc, snap |-> EmptySnapshot]
        ELSE [exc |-> NoExc, snap |-> result.sandboxes[1]]

\* The public accessors of Metrics: a fetch, projected
MetricsHandle(op, resp) ==
    LET m == GetMetricsHandle(resp)
    IN  IF m.exc # NoExc THEN [exc |-> m.exc, ret |-> NoRet]
        ELSE [exc |-> NoExc,
              ret |-> CASE op = "metrics.all" -> Ret("dict", JAbsent, m.snap, "None")
                        [] op = "metrics.cpu" -> Ret("value", JAbsent, EmptySnapshot, GetField(m.snap.cpu_usage, "None"))
                        [] op = "metrics.memory" -> Ret("value", JAbsent, EmptySnapshot, GetField(m.snap.memory_usage, "None"))
                        [] op = "metrics.disk" -> Ret("value", JAbsent, EmptySnapshot, GetField(m.snap.disk_usage, "None"))
                        [] op = "metrics.is_running" -> Ret("value", JAbsent, EmptySnapshot, GetField(m.snap.running, "False"))]

\* An operational call, from the response on
OpHandle(op, resp) ==
    CASE op = "command.run" -> CommandHandle(resp)
      [] op = "repl.run" -> ReplHandle(resp)
      [] OTHER -> MetricsHandle(op, resp)

\* The RPC method each call sends
MethodOf(op) ==
    CASE op = "start" -> "sandbox.start"
      [] op = "stop" -> "sandbox.stop"
      [] op = "command.run" -> "sandbox.command.run"
      [] op = "repl.run" -> "sandbox.repl.run"
      [] OTHER -> "sandbox.metrics.get"

\* Faulty variant: the guard is missing
GateMissing(started) == NoExc

\* The guard every operational call starts with
\* (`if not self._sandbox._is_started: raise RuntimeError(...)`)
Gate(started) == IF started THEN NoExc ELSE NotStartedError

\* Faulty variant: start has no early return
StartNeverNoop(started) == FALSE

\* `if self._is_started: return` of start
StartIsNoop(started) == started

\* Faulty variant: stop has no early return
StopNeverNoop(started) == FALSE

\* `if not self._is_started: return` of stop
StopIsNoop(started) == ~started

\* self._session.post on the session the instance holds
PostExc(sess) == IF sess = "None" THEN NoneSessionError ELSE NoExc

---------------------------------------------------------------------------
(* Arguments *)

DefaultMemory == 512
DefaultCpus == 1
DefaultTimeout == 180
ClientTimeoutMargin == 30

\* The arguments of a call: image, memory, cpus of start; timeout of start
\* and of Command.run, with timeoutIsNone when it is None.
Args(image, memory, cpus, timeout, timeoutIsNone) ==
    [image |-> image, memory |-> memory, cpus |-> cpus, timeout |-> timeout,
     timeoutIsNone |-> timeoutIsNone]

\* start(image, memory, cpus, timeout) as the caller may pass them
StartArgs ==
    { Args("None", DefaultMemory, DefaultCpus, DefaultTimeout, FALSE),
      Args("custom/image", 1024, 2, 10, FALSE) }

\* Command.run(command, args, timeout) called with a timeout, 0 included
CommandArgs == { Args("None", 0, 0, t, FALSE) : t \in {0, 30} }

\* create(cpus, memory, timeout): the keywords given (not None) and their values
CreateKwargs ==
    { [given |-> {}, cpus |-> 0, memory |-> 0, timeout |-> 0],
      [given |-> {"cpus", "memory", "timeout"}, cpus |-> 2, memory |-> 1024, timeout |-> 10] }

\* sandbox.start(**start_kwargs) as create builds it: a keyword is passed
\* only when it is not None, the others take start's defaults
CreateStartArgs(kw) ==
    Args("None",
         IF "memory" \in kw.given THEN kw.memory ELSE DefaultMemory,
         IF "cpus" \in kw.given THEN kw.cpus ELSE DefaultCpus,
         IF "timeout" \in kw.given THEN kw.timeout ELSE DefaultTimeout,
         FALSE)

\* A call without arguments of interest (Command.run: timeout=None)
NoArgs == Args("None", 0, 0, 0, TRUE)

\* get_default_image of the two subclasses
DefaultImage(v) == IF v = "python" THEN "microsandbox/python" ELSE "microsandbox/node"

\* The language tag of sandbox.repl.run in the two subclasses
ReplLanguage(v) == IF v = "python" THEN "python" ELSE "nodejs"

\* The keys of the "params" object each call site builds, but for the
\* "timeout" of sandbox.command.run
ParamKeys(op) ==
    CASE op = "start" -> {"namespace", "sandbox", "config"}
      [] op = "stop" -> {"namespace", "sandbox"}
      [] op = "command.run" -> {"sandbox", "command", "args"}
      [] op = "repl.run" -> {"sandbox", "language", "code"}
      [] OTHER -> {"sandbox"}

\* The keys of the "config" object of sandbox.start
ConfigKeys == {"image", "memory", "cpus"}

\* Faulty variant: Command.run tests `if timeout:` and drops a timeout of 0
RequestTruthyTimeout(op, args, v) ==
    [method |-> MethodOf(op),
     params |-> ParamKeys(op) \cup
                (IF op = "command.run" /\ ~args.timeoutIsNone /\ args.timeout # 0
                 THEN {"timeout"} ELSE {}),
     config |-> IF op = "start" THEN ConfigKeys ELSE {},
     image |-> IF op # "start" THEN "None"
               ELSE IF args.image # "None" THEN args.image ELSE DefaultImage(v),
     memory |-> IF op = "start" THEN args.memory ELSE 0,
     cpus |-> IF op = "start" THEN args.cpus ELSE 0,
     timeout |-> IF op = "command.run" /\ ~args.timeoutIsNone /\ args.timeout # 0
                 THEN args.timeout ELSE 0,
     clientTimeout |-> IF op = "start" THEN args.timeout + ClientTimeoutMargin ELSE 0,
     language |-> IF op = "repl.run" THEN ReplLanguage(v) ELSE "None"]

\* The request a call posts: its method, the keys of its params and, for
\* sandbox.start, the config (`image or await self.get_default_image()`,
\* memory, cpus) and the client-side timeout; for sandbox.command.run the
\* timeout, added `if timeout is not None`; for sandbox.repl.run the
\* language.
Request(op, args, v) ==
    [method |-> MethodOf(op),
     params |-> ParamKeys(op) \cup
                (IF op = "command.run" /\ ~args.timeoutIsNone THEN {"timeout"} ELSE {}),
     config |-> IF op = "start" THEN ConfigKeys ELSE {},
     image |-> IF op # "start" THEN "None"
               ELSE IF args.image # "None" THEN args.image ELSE DefaultImage(v),
     memory |-> IF op = "start" THEN args.memory ELSE 0,
     cpus |-> IF op = "start" THEN args.cpus ELSE 0,
     timeout |-> IF op = "command.run" /\ ~args.timeoutIsNone THEN args.timeout ELSE 0,
     clientTimeout |-> IF op = "start" THEN args.timeout + ClientTimeoutMargin ELSE 0,
     language |-> IF op = "repl.run" THEN ReplLanguage(v) ELSE "None"]

NoRequest ==
    [method |-> "none", params |-> {}, config |-> {}, image |-> "None", memory |-> 0,
     cpus |-> 0, timeout |-> 0, clientTimeout |-> 0, language |-> "None"]

---------------------------------------------------------------------------
(* State *)

VARIABLES
    variant,      \* "python" (PythonSandbox) or "node" (NodeSandbox)
    is_started,   \* self._is_started
    session,      \* self._session: "None" or "open"
    scope,        \* where the flow through create() stands; "direct" when
                  \* the instance was constructed without create()
    pending,      \* the call suspended at its network wait, or Idle
    inflight,     \* the exception in flight while create's finally runs
    scopeExc,     \* the exception that left the `async with create()` block
    scopeCtx,     \* its __context__: the exception it replaced
    teardown,     \* calls made by create's finally: stop(), session.close()
    body,         \* how the caller's block ended: "none", "returned", "raised"
    nreq,         \* HTTP requests sent so far
    last,         \* the call that completed last, as the caller saw it
    tasks         \* calls the caller runs as overlapping tasks on the one
                  \* instance: those in flight, in the order they were
                  \* issued, and those whose response has landed, in the
                  \* order they landed

vars == <<variant, is_started, session, scope, pending, inflight, scopeExc,
          scopeCtx, teardown, body, nreq, last, tasks>>

NoTasks == [flight |-> <<>>, landed |-> <<>>]

Idle == [op |-> "idle", by |-> "nobody", args |-> NoArgs, pre |-> FALSE, req |-> NoRequest]

NoCall ==
    [op |-> "none", by |-> "nobody", args |-> NoArgs, pre |-> FALSE, sent |-> 0,
     resp |-> NoResponse, exc |-> NoExc, ret |-> NoRet, warned |-> FALSE, post |-> FALSE]

\* The record of a completed call
Done(op, by, args, pre, sent, resp, exc, ret, warned, post) ==
    [op |-> op, by |-> by, args |-> args, pre |-> pre, sent |-> sent,
     resp |-> resp, exc |-> exc, ret |-> ret, warned |-> warned, post |-> post]

\* Where the caller's own code may call the instance
CallerScopes == {"direct", "body", "exited"}

Init ==
    /\ variant \in {"python", "node"}
    /\ is_started = FALSE
    /\ session = "None"
    /\ scope \in {"direct", "pre"}
    /\ pending = Idle
    /\ inflight = NoExc
    /\ scopeExc = NoExc
    /\ scopeCtx = NoExc
    /\ teardown = [stops |-> 0, closes |-> 0]
    /\ body = "none"
    /\ nreq = 0
    /\ last = NoCall
    /\ tasks = NoTasks

---------------------------------------------------------------------------
(* Calls, up to the network wait *)

\* Faulty variant: start sets the flag when it sends its request
BeginFlagAtSend(op, by, args, sess) ==
    LET noop == \/ op = "start" /\ StartIsNoop(is_started)
                \/ op = "stop" /\ StopIsNoop(is_started)
        gate == IF op \in OperationalCalls THEN Gate(is_started) ELSE NoExc
        post == PostExc(sess)
        \* Metrics._get_metrics posts inside `try ... except Exception`
        postExc == IF op \in MetricsAccessors /\ post # NoExc
                   THEN Exc("RuntimeError", MetricsPrefix \o StrOf(post))
                   ELSE post
    IN  /\ is_started' = (IF op = "start" /\ ~noop /\ postExc = NoExc THEN TRUE ELSE is_started)
        /\ IF noop THEN
               /\ pending' = Idle
               /\ nreq' = nreq
               /\ last' = Done(op, by, args, is_started, 0, NoResponse, NoExc, RetNone, FALSE, is_started)
           ELSE IF gate # NoExc THEN
               /\ pending' = Idle
               /\ nreq' = nreq
               /\ last' = Done(op, by, args, is_started, 0, NoResponse, gate, NoRet, FALSE, is_started)
           ELSE IF postExc # NoExc THEN
               /\ pending' = Idle
               /\ nreq' = nreq
               /\ last' = Done(op, by, args, is_started, 0, NoResponse, postExc, NoRet, FALSE, is_started)
           ELSE
               /\ pending' = [op |-> op, by |-> by, args |-> args, pre |-> is_started,
                               req |-> Request(op, args, variant)]
               /\ nreq' = nreq + 1
               /\ last' = last

\* A call of `op` on behalf of `by` begins, the instance holding session
\* `sess`.  It either completes at once
\* (no-op return, gate error, no session to post on) or sends its request
\* and suspends.  Sets is_started', pending', nreq', last'.
Begin(op, by, args, sess) ==
    LET noop == \/ op = "start" /\ StartIsNoop(is_started)
                \/ op = "stop" /\ StopIsNoop(is_started)
        gate == IF op \in OperationalCalls THEN Gate(is_started) ELSE NoExc
        post == PostExc(sess)
        \* Metrics._get_metrics posts inside `try ... except Exception`
        postExc == IF op \in MetricsAccessors /\ post # NoExc
                   THEN Exc("RuntimeError", MetricsPrefix \o StrOf(post))
                   ELSE post
    IN  /\ is_started' = is_started
        /\ IF noop THEN
               /\ pending' = Idle
               /\ nreq' = nreq
               /\ last' = Done(op, by, args, is_started, 0, NoResponse, NoExc, RetNone, FALSE, is_started)
           ELSE IF gate # NoExc THEN
               /\ pending' = Idle
               /\ nreq' = nreq
               /\ last' = Done(op, by, args, is_started, 0, NoResponse, gate, NoRet, FALSE, is_started)
           ELSE IF postExc # NoExc THEN
               /\ pending' = Idle
               /\ nreq' = nreq
               /\ last' = Done(op, by, args, is_started, 0, NoResponse, postExc, NoRet, FALSE, is_started)
           ELSE
               /\ pending' = [op |-> op, by |-> by, args |-> args, pre |-> is_started,
                               req |-> Request(op, args, variant)]
               /\ nreq' = nreq + 1
               /\ last' = last

\* Faulty variant: start returns at once also while another start is in
\* flight (a "Starting" state)
CallStartSingleFlight(args) ==
    /\ scope \in CallerScopes /\ pending = Idle /\ nreq < MaxRequests
    /\ IF \E k \in 1..Len(tasks.flight) : tasks.flight[k].op = "start"
       THEN /\ last' = Done("start", "caller", args, is_started, 0, NoResponse, NoExc,
                             RetNone, FALSE, is_started)
            /\ UNCHANGED <<is_started, pending, nreq>>
       ELSE Begin("start", "caller", args, session)
    /\ UNCHANGED <<tasks, variant, session, scope, inflight, scopeExc, scopeCtx, teardown, body>>

\* The caller's code calls start / stop / an operational method
CallStart(args) ==
    /\ scope \in CallerScopes /\ pending = Idle /\ nreq < MaxRequests
    /\ Begin("start", "caller", args, session)
    /\ UNCHANGED <<tasks, variant, session, scope, inflight, scopeExc, scopeCtx, teardown, body>>

CallStop ==
    /\ scope \in CallerScopes /\ pending = Idle /\ nreq < MaxRequests
    /\ Begin("stop", "caller", NoArgs, session)
    /\ UNCHANGED <<tasks, variant, session, scope, inflight, scopeExc, scopeCtx, teardown, body>>

CallOp(op) ==
    /\ scope \in CallerScopes /\ pending = Idle /\ nreq < MaxRequests
    /\ Begin(op, "caller", NoArgs, session)
    /\ UNCHANGED <<tasks, variant, session, scope, inflight, scopeExc, scopeCtx, teardown, body>>

\* The caller's code calls sandbox.command.run(command, args, timeout=...)
CallCommand(args) ==
    /\ scope \in CallerScopes /\ pending = Idle /\ nreq < MaxRequests
    /\ Begin("command.run", "caller", args, session)
    /\ UNCHANGED <<tasks, variant, session, scope, inflight, scopeExc, scopeCtx, teardown, body>>

\* The caller of a directly constructed instance gives it a session
\* (sandbox._session = aiohttp.ClientSession())
AttachSession ==
    /\ scope = "direct" /\ session = "None" /\ pending = Idle
    /\ session' = "open"
    /\ UNCHANGED <<tasks, variant, is_started, scope, pending, inflight, scopeExc,
                   scopeCtx, teardown, body, nreq, last>>

---------------------------------------------------------------------------
(* The response lands *)

\* Faulty variant: a metrics accessor answers from the response of the
\* previous successful fetch, when there was one
HandleStale(call, resp) ==
    CASE call.op = "start" ->
            LET h == StartHandle(resp, call.args.timeout)
            IN  [exc |-> h.exc, ret |-> IF h.exc = NoExc THEN RetNone ELSE NoRet,
                 warned |-> h.warned, write |-> h.setFlag, flag |-> TRUE]
      [] call.op = "stop" ->
            LET h == StopHandle(resp)
            IN  [exc |-> h.exc, ret |-> IF h.exc = NoExc THEN RetNone ELSE NoRet,
                 warned |-> FALSE, write |-> h.setFlag, flag |-> FALSE]
      [] OTHER ->
            LET cached == /\ call.op \in MetricsAccessors /\ last.op \in MetricsAccessors
                          /\ last.sent = 1 /\ last.exc = NoExc
                h == OpHandle(call.op, IF cached THEN last.resp ELSE resp)
            IN  [exc |-> h.exc, ret |-> h.ret, warned |-> FALSE, write |-> FALSE, flag |-> FALSE]

\* Faulty variant: the response to a start or stop is dropped when the
\* response to a start or stop issued later has been accepted already
HandleLastIssuedWins(call, resp) ==
    LET overtaken == \E k \in 1..Len(tasks.landed) :
                        /\ tasks.landed[k].op \in {"start", "stop"}
                        /\ tasks.landed[k].accepted
                        /\ tasks.landed[k].seq > call.seq
    IN  CASE call.op = "start" ->
                LET h == StartHandle(resp, call.args.timeout)
                IN  [exc |-> h.exc, ret |-> IF h.exc = NoExc THEN RetNone ELSE NoRet,
                     warned |-> h.warned, write |-> h.setFlag /\ ~overtaken, flag |-> TRUE]
          [] call.op = "stop" ->
                LET h == StopHandle(resp)
                IN  [exc |-> h.exc, ret |-> IF h.exc = NoExc THEN RetNone ELSE NoRet,
                     warned |-> FALSE, write |-> h.setFlag /\ ~overtaken, flag |-> FALSE]
          [] OTHER ->
                LET h == OpHandle(call.op, resp)
                IN  [exc |-> h.exc, ret |-> h.ret, warned |-> FALSE, write |-> FALSE, flag |-> FALSE]

\* Faulty variant: an operational call tests the flag again when its
\* response has arrived
HandleRecheck(call, resp) ==
    CASE call.op = "start" ->
            LET h == StartHandle(resp, call.args.timeout)
            IN  [exc |-> h.exc, ret |-> IF h.exc = NoExc THEN RetNone ELSE NoRet,
                 warned |-> h.warned, write |-> h.setFlag, flag |-> TRUE]
      [] call.op = "stop" ->
            LET h == StopHandle(resp)
            IN  [exc |-> h.exc, ret |-> IF h.exc = NoExc THEN RetNone ELSE NoRet,
                 warned |-> FALSE, write |-> h.setFlag, flag |-> FALSE]
      [] OTHER ->
            LET h == OpHandle(call.op, resp)
            IN  IF is_started
                THEN [exc |-> h.exc, ret |-> h.ret, warned |-> FALSE, write |-> FALSE, flag |-> FALSE]
                ELSE [exc |-> NotStartedError, ret |-> NoRet, warned |-> FALSE,
                      write |-> FALSE, flag |-> FALSE]

\* Faulty variant: an operational call that fails marks the sandbox as
\* not started
HandleFailureStops(call, resp) ==
    CASE call.op = "start" ->
            LET h == StartHandle(resp, call.args.timeout)
            IN  [exc |-> h.exc, ret |-> IF h.exc = NoExc THEN RetNone ELSE NoRet,
                 warned |-> h.warned, write |-> h.setFlag, flag |-> TRUE]
      [] call.op = "stop" ->
            LET h == StopHandle(resp)
            IN  [exc |-> h.exc, ret |-> IF h.exc = NoExc THEN RetNone ELSE NoRet,
                 warned |-> FALSE, write |-> h.setFlag, flag |-> FALSE]
      [] OTHER ->
            LET h == OpHandle(call.op, resp)
            IN  [exc |-> h.exc, ret |-> h.ret, warned |-> FALSE,
                 write |-> h.exc # NoExc, flag |-> FALSE]

\* What the suspended call does with the outcome `resp` of its exchange
Handle(call, resp) ==
    CASE call.op = "start" ->
            LET h == StartHandle(resp, call.args.timeout)
            IN  [exc |-> h.exc, ret |-> IF h.exc = NoExc THEN RetNone ELSE NoRet,
                 warned |-> h.warned, write |-> h.setFlag, flag |-> TRUE]
      [] call.op = "stop" ->
            LET h == StopHandle(resp)
            IN  [exc |-> h.exc, ret |-> IF h.exc = NoExc THEN RetNone ELSE NoRet,
                 warned |-> FALSE, write |-> h.setFlag, flag |-> FALSE]
      [] OTHER ->
            LET h == OpHandle(call.op, resp)
            IN  [exc |-> h.exc, ret |-> h.ret, warned |-> FALSE, write |-> FALSE, flag |-> FALSE]

CallerError == Exc("CallerError", <<"raised", "by", "the", "caller">>)
CloseError == Exc("CloseError", <<"session", "close", "failed">>)

\* The exchange of the suspended call ends with `resp`; the call resumes
\* and runs to its return or raise.  A call made by create() continues in
\* create: start's return yields to the caller's block, start's raise
\* enters the finally clause, stop's raise leaves the scope.
Land(resp) ==
    /\ pending # Idle
    /\ LET h == Handle(pending, resp)
           started == IF h.write THEN h.flag ELSE is_started
       IN  /\ is_started' = started
           /\ last' = Done(pending.op, pending.by, pending.args, pending.pre, 1,
                           resp, h.exc, h.ret, h.warned, started)
           /\ IF pending.by = "create" /\ pending.op = "start" THEN
                  /\ scope' = IF h.exc = NoExc THEN "body" ELSE "finally"
                  /\ inflight' = h.exc
                  /\ UNCHANGED <<scopeExc, scopeCtx>>
              ELSE IF pending.by = "create" /\ pending.op = "stop" THEN
                  IF h.exc = NoExc
                  THEN /\ scope' = "closing"
                       /\ UNCHANGED <<inflight, scopeExc, scopeCtx>>
                  ELSE /\ scope' = "exited"
                       /\ scopeExc' = h.exc
                       /\ scopeCtx' = inflight
                       /\ inflight' = NoExc
              ELSE UNCHANGED <<scope, inflight, scopeExc, scopeCtx>>
    /\ pending' = Idle
    /\ UNCHANGED <<tasks, variant, session, teardown, body, nreq>>

---------------------------------------------------------------------------
(* BaseSandbox.create *)

\* Entry: the instance gets its session and start(**start_kwargs) is awaited
CreateEnter(kw) ==
    /\ scope = "pre" /\ pending = Idle
    /\ session' = "open"
    /\ Begin("start", "create", CreateStartArgs(kw), "open")
    /\ scope' = "entering"
    /\ UNCHANGED <<tasks, variant, inflight, scopeExc, scopeCtx, teardown, body>>

\* The caller's block ends normally
BodyReturn ==
    /\ scope = "body" /\ pending = Idle
    /\ scope' = "finally"
    /\ inflight' = NoExc
    /\ body' = "returned"
    /\ UNCHANGED <<tasks, variant, is_started, session, pending, scopeExc, scopeCtx,
                   teardown, nreq, last>>

\* The caller's block raises
BodyRaise ==
    /\ scope = "body" /\ pending = Idle
    /\ scope' = "finally"
    /\ inflight' = CallerError
    /\ body' = "raised"
    /\ UNCHANGED <<tasks, variant, is_started, session, pending, scopeExc, scopeCtx,
                   teardown, nreq, last>>

\* Faulty variant: the finally clause closes the session without stopping
\* the sandbox first
TeardownStopMissing ==
    /\ scope = "finally" /\ pending = Idle
    /\ scope' = "closing"
    /\ UNCHANGED <<tasks, variant, is_started, session, pending, inflight, scopeExc,
                   scopeCtx, teardown, body, nreq, last>>

\* finally: `await sandbox.stop()`.  When stop returns at once the flow
\* goes on to the close; when it raises at once the exception leaves the
\* scope; otherwise it waits for the response (Land).
TeardownStop ==
    /\ scope = "finally" /\ pending = Idle
    /\ teardown' = [teardown EXCEPT !.stops = @ + 1]
    /\ Begin("stop", "create", NoArgs, session)
    /\ IF StopIsNoop(is_started) THEN
           /\ scope' = "closing"
           /\ UNCHANGED <<inflight, scopeExc, scopeCtx>>
       ELSE IF PostExc(session) # NoExc THEN
           /\ scope' = "exited"
           /\ scopeExc' = PostExc(session)
           /\ scopeCtx' = inflight
           /\ inflight' = NoExc
       ELSE
           /\ scope' = "teardown_stop"
           /\ UNCHANGED <<inflight, scopeExc, scopeCtx>>
    /\ UNCHANGED <<tasks, variant, session, body>>

\* Faulty variant: the session is closed only when no exception is in
\* flight (the close stands after the try statement, not in its finally)
TeardownCloseOnSuccessOnly(closeOk) ==
    /\ scope = "closing" /\ pending = Idle
    /\ IF session = "None" \/ inflight # NoExc THEN
           /\ closeOk
           /\ UNCHANGED <<session, teardown>>
           /\ scopeExc' = inflight
           /\ scopeCtx' = NoExc
       ELSE
           /\ teardown' = [teardown EXCEPT !.closes = @ + 1]
           /\ session' = IF closeOk THEN "None" ELSE session
           /\ scopeExc' = IF closeOk THEN inflight ELSE CloseError
           /\ scopeCtx' = IF closeOk THEN NoExc ELSE inflight
    /\ scope' = "exited"
    /\ inflight' = NoExc
    /\ UNCHANGED <<tasks, variant, is_started, pending, body, nreq, last>>

\* finally: `if sandbox._session: await sandbox._session.close();
\* sandbox._session = None`, then the exception in flight, if any, leaves
\* the scope.  close() may itself raise (closeOk = FALSE).
TeardownClose(closeOk) ==
    /\ scope = "closing" /\ pending = Idle
    /\ IF session = "None" THEN
           /\ closeOk
           /\ UNCHANGED <<session, teardown>>
           /\ scopeExc' = inflight
           /\ scopeCtx' = NoExc
       ELSE
           /\ teardown' = [teardown EXCEPT !.closes = @ + 1]
           /\ session' = IF closeOk THEN "None" ELSE session
           /\ scopeExc' = IF closeOk THEN inflight ELSE CloseError
           /\ scopeCtx' = IF closeOk THEN NoExc ELSE inflight
    /\ scope' = "exited"
    /\ inflight' = NoExc
    /\ UNCHANGED <<tasks, variant, is_started, pending, body, nreq, last>>

---------------------------------------------------------------------------

Next ==
    \/ \E args \in StartArgs : CallStart(args)
    \/ CallStop
    \/ \E op \in OperationalCalls : CallOp(op)
    \/ \E args \in CommandArgs : CallCommand(args)
    \/ AttachSession
    \/ \E resp \in Responses : Land(resp)
    \/ \E kw \in CreateKwargs : CreateEnter(kw)
    \/ BodyReturn
    \/ BodyRaise
    \/ TeardownStop
    \/ \E ok \in BOOLEAN : TeardownClose(ok)

Spec == Init /\ [][Next]_vars

---------------------------------------------------------------------------
(* The metrics accessors of a started sandbox, over a wide range of      *)
(* sandbox.metrics.get results.                                           *)

\* Values a server may report for cpu_usage, memory_usage and disk_usage:
\* the key missing, null, zero, a positive number
CpuValues == {"absent", "null", "0.0", "12.5"}
MemoryValues == {"absent", "null", "0", "256"}
DiskValues == {"absent", "null", "0", "1024"}

\* The per-sandbox entries of a result: this sandbox's and another one's
OwnSnapshots ==
    { Snapshot(SandboxName, "true", c, m, d) :
        c \in CpuValues, m \in MemoryValues, d \in DiskValues }
    \cup { Snapshot(SandboxName, r, "0.0", "256", "1024") : r \in {"absent", "null", "false"} }
OtherSnapshots ==
    { Snapshot("other", "true", "99.9", "2048", "1") , Snapshot("other", "false", "null", "absent", "0") }

\* "sandboxes" lists: empty, one entry, this sandbox's entry before or
\* after another sandbox's
SnapshotLists ==
    {<<>>}
    \cup { <<s>> : s \in OwnSnapshots \cup OtherSnapshots }
    \cup { <<s, o>> : s \in {Snapshot(SandboxName, "true", "0.0", "0", "null")}, o \in OtherSnapshots }
    \cup { <<o, s>> : s \in {Snapshot(SandboxName, "true", "0.0", "0", "null")}, o \in OtherSnapshots }

MetricsResults == {JDict} \cup { JSandboxes(l) : l \in SnapshotLists }

\* Outcomes of a sandbox.metrics.get exchange
MetricsResponses ==
    { [kind |-> "http", status |-> 200, text |-> <<>>,
       body |-> [json |-> "object", hasError |-> FALSE, hasMessage |-> FALSE, message |-> <<>>,
                 hasResult |-> r.type # "absent", result |-> r]] : r \in MetricsResults \cup {JAbsent} }
    \cup { r \in Responses : ~(r.kind = "http" /\ r.status = 200 /\ ~r.body.hasError) }

\* A directly constructed instance that was given a session and started
MetricsInit ==
    /\ variant \in {"python", "node"}
    /\ is_started = TRUE
    /\ session = "open"
    /\ scope = "direct"
    /\ pending = Idle
    /\ inflight = NoExc
    /\ scopeExc = NoExc
    /\ scopeCtx = NoExc
    /\ teardown = [stops |-> 0, closes |-> 0]
    /\ body = "none"
    /\ nreq = 1
    /\ last = Done("start", "caller",
                   Args("None", DefaultMemory, DefaultCpus, DefaultTimeout, FALSE),
                   FALSE, 1,
                   [kind |-> "http", status |-> 200, text |-> <<>>,
                    body |-> [json |-> "object", hasError |-> FALSE, hasMessage |-> FALSE,
                              message |-> <<>>, hasResult |-> TRUE,
                              result |-> JStr(<<"Sandbox", "started">>)]],
                   NoExc, RetNone, FALSE, TRUE)
    /\ tasks = NoTasks

MetricsNext ==
    \/ \E op \in MetricsAccessors : CallOp(op)
    \/ \E resp \in MetricsResponses : Land(resp)

SpecMetrics == MetricsInit /\ [][MetricsNext]_vars

---------------------------------------------------------------------------
(* Overlapping calls on one instance.  The caller runs calls as tasks of  *)
(* one event loop (asyncio.create_task, asyncio.gather): a call runs      *)
(* without interruption up to its `async with session.post(...)`, where   *)
(* it waits for the response while other tasks run, and from the decoded  *)
(* response to its return or raise.                                       *)

\* Outcomes of an exchange: accepted, an "error" body, a connection error
RaceResponses ==
    { r \in Responses :
        \/ r.kind = "client_error"
        \/ /\ r.kind = "http" /\ r.status = 200 /\ r.body.json = "object"
           /\ \/ ~r.body.hasError /\ r.body.result = JDict
              \/ r.body.hasError /\ r.body.message = <<"boom">> /\ ~r.body.hasResult }

\* The operational calls the tasks make
RaceOps == {"command.run", "metrics.all"}

\* A directly constructed instance that was given a session
RaceInit ==
    /\ variant \in {"python", "node"}
    /\ is_started = FALSE
    /\ session = "open"
    /\ scope = "direct"
    /\ pending = Idle
    /\ inflight = NoExc
    /\ scopeExc = NoExc
    /\ scopeCtx = NoExc
    /\ teardown = [stops |-> 0, closes |-> 0]
    /\ body = "none"
    /\ nreq = 0
    /\ last = NoCall
    /\ tasks = NoTasks

\* The call that has just posted its request waits as a task of its own:
\* the caller's code goes on.  seq is the number of its request.
Detach ==
    /\ scope = "direct" /\ pending # Idle
    /\ tasks' = [tasks EXCEPT !.flight =
                    Append(@, [op |-> pending.op, by |-> pending.by, args |-> pending.args,
                               pre |-> pending.pre, req |-> pending.req, seq |-> nreq])]
    /\ pending' = Idle
    /\ UNCHANGED <<variant, is_started, session, scope, inflight, scopeExc,
                   scopeCtx, teardown, body, nreq, last>>

\* s without its i-th element
Remove(s, i) == SubSeq(s, 1, i - 1) \o SubSeq(s, i + 1, Len(s))

\* The exchange of the i-th task in flight ends with `resp`: the task
\* resumes and runs to its return or raise, writing the flag as start and
\* stop do.
RaceLand(i, resp) ==
    /\ scope = "direct" /\ pending = Idle
    /\ i \in 1..Len(tasks.flight)
    /\ LET call == tasks.flight[i]
           h == Handle(call, resp)
           started == IF h.write THEN h.flag ELSE is_started
       IN  /\ is_started' = started
           /\ last' = Done(call.op, call.by, call.args, call.pre, 1,
                           resp, h.exc, h.ret, h.warned, started)
           /\ tasks' = [flight |-> Remove(tasks.flight, i),
                        landed |-> Append(tasks.landed,
                                          [op |-> call.op, seq |-> call.seq,
                                           accepted |-> h.exc = NoExc])]
    /\ UNCHANGED <<variant, session, scope, pending, inflight, scopeExc, scopeCtx,
                   teardown, body, nreq>>

RaceNext ==
    \/ \E args \in StartArgs : CallStart(args)
    \/ CallStop
    \/ \E op \in RaceOps : CallOp(op)
    \/ Detach
    \/ \E i \in 1..MaxRequests, resp \in RaceResponses : RaceLand(i, resp)

SpecRace == RaceInit /\ [][RaceNext]_vars

---------------------------------------------------------------------------
(* Properties *)

\* Kinds of outcome of one exchange, read off the response alone
StatusRejected(resp) == resp.kind = "http" /\ resp.status # 200
DecodedObject(resp) == resp.kind = "http" /\ resp.status = 200 /\ resp.body.json = "object"
HasErrorField(resp) == DecodedObject(resp) /\ resp.body.hasError
TransportError(resp) == resp.kind = "client_error"
TransportTimeout(resp) == resp.kind \in {"client_timeout", "total_timeout"}
Accepted(resp) == DecodedObject(resp) /\ ~resp.body.hasError
ListedFailure(resp) ==
    StatusRejected(resp) \/ HasErrorField(resp) \/ TransportError(resp) \/ TransportTimeout(resp)

\* C1 (gating): an operational call (Command.run, a Metrics accessor,
\* PythonSandbox.run, NodeSandbox.run) invoked while NotStarted never has a
\* request in flight, and completes with the not-started RuntimeError
\* having sent no request and returned nothing.
C1_Gating ==
    /\ pending.op \in OperationalCalls => pending.pre
    /\ (last.op \in OperationalCalls /\ ~last.pre) =>
            /\ last.exc.kind = "RuntimeError"
            /\ last.exc.text = <<"Sandbox", "is", "not", "started.", "Call", "start()", "first.">>
            /\ last.sent = 0
            /\ last.ret.kind = "raised"

\* an operational call was refused after the sandbox had been started and
\* stopped again
C1_Witness ==
    /\ last.op = "repl.run" /\ variant = "node"
    /\ ~last.pre /\ last.exc = NotStartedError
    /\ nreq >= 2

\* C2: a start() invoked while NotStarted leaves the sandbox Started
\* exactly when it returns, which it does only on an accepted response
\* (status 200, a JSON object without "error"); on a rejected status, an
\* "error" field, a transport error or a transport timeout it raises and
\* the sandbox is still NotStarted.
C2_StartOutcome ==
    (last.op = "start" /\ ~last.pre) =>
        /\ last.post <=> (last.exc = NoExc)
        /\ last.post => Accepted(last.resp)
        /\ ListedFailure(last.resp) => (last.exc # NoExc /\ ~last.post /\ ~is_started)

C2_Witness ==
    /\ last.op = "start" /\ ~last.pre
    /\ TransportTimeout(last.resp)
    /\ last.exc # NoExc /\ ~is_started

\* C3: a stop() invoked while Started leaves the sandbox NotStarted
\* exactly when it returns, which it does only on an accepted response; on
\* a rejected status, an "error" field or a transport error it raises and
\* the sandbox is still Started.
C3_StopOutcome ==
    (last.op = "stop" /\ last.pre) =>
        /\ ~last.post <=> (last.exc = NoExc)
        /\ ~last.post => Accepted(last.resp)
        /\ ListedFailure(last.resp) => (last.exc # NoExc /\ last.post /\ is_started)

C3_Witness ==
    /\ last.op = "stop" /\ last.pre
    /\ HasErrorField(last.resp)
    /\ last.exc.kind = "RuntimeError" /\ is_started

\* A start() / stop() is invoked in this step by a flow that is not
\* suspended: it either suspends on its request or completes at once.
StartInvoked == pending = Idle /\ (pending'.op = "start" \/ (last' # last /\ last'.op = "start"))
StopInvoked == pending = Idle /\ (pending'.op = "stop" \/ (last' # last /\ last'.op = "stop"))

\* C4 (idempotent start): a start() invoked while Started returns None
\* without error, sends no request and changes neither the flag nor the
\* session, whatever arguments it is given; a start() invoked while
\* NotStarted on an instance with a session sends exactly one request.  So
\* two successive start calls send exactly one request.
C4_IdempotentStart ==
    [][ /\ (StartInvoked /\ is_started) =>
              /\ nreq' = nreq
              /\ is_started' = is_started /\ session' = session /\ scope' = scope
              /\ pending' = Idle
              /\ last'.exc = NoExc /\ last'.ret.kind = "None" /\ last'.sent = 0
        /\ (StartInvoked /\ ~is_started /\ session' = "open") =>
              /\ nreq' = nreq + 1
              /\ pending'.op = "start" ]_vars

\* the second of two successive start calls, given other arguments than
\* the defaults, has returned; one request was sent in all
C4_Witness ==
    /\ last.op = "start" /\ last.by = "caller" /\ last.pre
    /\ last.args.image = "custom/image" /\ last.args.memory = 1024
    /\ last.exc = NoExc /\ is_started
    /\ nreq = 1

\* C5 (idempotent stop): a stop() invoked while NotStarted returns None
\* without error, sends no request and leaves the sandbox NotStarted.
C5_IdempotentStop ==
    [][ (StopInvoked /\ ~is_started) =>
              /\ nreq' = nreq
              /\ is_started' = FALSE /\ session' = session
              /\ pending' = Idle
              /\ last'.exc = NoExc /\ last'.ret.kind = "None" /\ last'.sent = 0 ]_vars

\* stop() returned at once on an instance that was started and stopped before
C5_Witness ==
    /\ last.op = "stop" /\ last.by = "caller" /\ ~last.pre
    /\ last.exc = NoExc /\ last.sent = 0 /\ ~is_started
    /\ nreq = 2

\* the words "timed out waiting" occur in a string
HasMarker(toks) ==
    \E i \in 1..Len(toks) :
        /\ i + 2 <= Len(toks)
        /\ toks[i] = "timed" /\ toks[i + 1] = "out" /\ toks[i + 2] = "waiting"

\* C6 (soft warning): when the response to sandbox.start has status 200,
\* no "error" and a string result containing "timed out waiting", start()
\* raises nothing, warns, and the sandbox is Started.
C6_SoftWarning ==
    ( /\ last.op = "start" /\ last.sent = 1
      /\ Accepted(last.resp)
      /\ last.resp.body.hasResult
      /\ last.resp.body.result.type = "str"
      /\ HasMarker(last.resp.body.result.toks) ) =>
        /\ last.exc = NoExc
        /\ last.warned
        /\ last.post /\ is_started

C6_Witness ==
    /\ last.op = "start" /\ last.sent = 1
    /\ last.resp.status = 200
    /\ last.resp.body.result = JStr(<<"Error:", "timed", "out", "waiting">>)
    /\ last.warned /\ last.exc = NoExc /\ is_started

\* msg occurs in text
Mentions(text, msg) ==
    \E i \in 1..Len(text) :
        /\ i + Len(msg) - 1 <= Len(text)
        /\ \A k \in 1..Len(msg) : text[i + k - 1] = msg[k]

\* C7 (error unwrap): whatever the method (sandbox.start, sandbox.stop,
\* sandbox.command.run, sandbox.metrics.get, sandbox.repl.run), a decoded
\* body with an "error" field carrying a message makes the call raise a
\* RuntimeError whose text contains that message; nothing is returned.
C7_ErrorUnwrap ==
    ( /\ last.sent = 1
      /\ HasErrorField(last.resp)
      /\ last.resp.body.hasMessage ) =>
        /\ last.exc.kind = "RuntimeError"
        /\ Mentions(last.exc.text, last.resp.body.message)
        /\ last.ret.kind = "raised"

\* a metrics accessor got {"error": {"message": "no such sandbox"}}
C7_Witness ==
    /\ last.op = "metrics.memory" /\ last.sent = 1
    /\ HasErrorField(last.resp)
    /\ last.resp.body.message = <<"no", "such", "sandbox">>
    /\ last.exc.kind = "RuntimeError"

\* C8 (scoped teardown on exception): once the scope opened by create has
\* been left after the caller's block raised, stop() was invoked exactly
\* once by the teardown, the session's close() was invoked exactly once,
\* and the exception that left the scope is the caller's own.
C8_TeardownOnException ==
    (scope = "exited" /\ body = "raised") =>
        /\ teardown.stops = 1
        /\ teardown.closes = 1
        /\ scopeExc = CallerError

\* C9: once the scope opened by create has been left, in whatever way
\* (the teardown's stop() having failed included), the session's close()
\* was invoked exactly once.
C9_SessionClosedOnExit ==
    scope = "exited" => (teardown.closes = 1)

\* The stop() awaited by create's finally clause raised
TeardownStopRaised == last.by = "create" /\ last.op = "stop" /\ last.exc # NoExc

\* C10: when the caller's block raised and the teardown's stop() raised
\* too, the exception that leaves the scope is still the caller's (the
\* teardown failure does not take its place).
C10_CallerExceptionNotMasked ==
    (scope = "exited" /\ body = "raised" /\ TeardownStopRaised) =>
        scopeExc = CallerError

\* The body of a 200 response is a JSON object that is not a well-formed
\* reply: it has neither "result" nor "error", or both
Malformed(resp) ==
    DecodedObject(resp) /\ (resp.body.hasError <=> resp.body.hasResult)

\* C11 (malformed responses fail loudly): whatever the method, a call whose
\* 200 response holds neither "result" nor "error", or both, raises; it
\* returns no default value and, for start and stop, leaves the lifecycle
\* flag as it was.
C11_MalformedFailsLoudly ==
    (last.sent = 1 /\ Malformed(last.resp)) =>
        /\ last.exc # NoExc
        /\ last.ret.kind = "raised"
        /\ last.post = last.pre

\* The snapshot a fetch hands to the accessor: the first entry of the
\* result's "sandboxes" list, {} when there is none
Fetched(resp) ==
    LET res == resp.body.result
    IN  IF resp.body.hasResult /\ res.hasSandboxes /\ Len(res.sandboxes) > 0
        THEN Head(res.sandboxes) ELSE EmptySnapshot

\* The field of a snapshot an accessor reads
FieldOf(op, snap) ==
    CASE op = "metrics.cpu" -> snap.cpu_usage
      [] op = "metrics.memory" -> snap.memory_usage
      [] op = "metrics.disk" -> snap.disk_usage
      [] op = "metrics.is_running" -> snap.running

\* C12 (metrics availability): cpu(), memory() and disk() return the
\* field of the fetched snapshot as it is: a reported zero (0, 0.0) comes
\* back as that zero, None comes back exactly when the field is null or
\* missing.
C12_MetricsAvailability ==
    (last.op \in {"metrics.cpu", "metrics.memory", "metrics.disk"}
        /\ last.sent = 1 /\ last.exc = NoExc) =>
        LET f == FieldOf(last.op, Fetched(last.resp))
        IN  /\ last.ret.kind = "value"
            /\ (last.ret.value = "None") <=> (f \in {"absent", "null"})
            /\ f \notin {"absent", "null"} => last.ret.value = f

\* cpu() returned 0.0 for a snapshot reporting cpu_usage 0.0 whose
\* memory_usage is null
C12_Witness ==
    /\ last.op = "metrics.cpu" /\ last.sent = 1 /\ last.exc = NoExc
    /\ Fetched(last.resp).cpu_usage = "0.0"
    /\ Fetched(last.resp).memory_usage = "null"
    /\ last.ret.value = "0.0"

\* The result of a 200 response without "error" has no "sandboxes" key or
\* an empty list under it
NoSandboxes(resp) ==
    /\ Accepted(resp) /\ resp.body.hasResult
    /\ resp.body.result.type = "dict"
    /\ (~resp.body.result.hasSandboxes \/ resp.body.result.sandboxes = <<>>)

\* C13 (empty sandbox list): on a Started sandbox, when the result of
\* sandbox.metrics.get has an empty or missing "sandboxes" list, no
\* accessor raises: all() returns {}, cpu(), memory() and disk() return
\* None, is_running() returns False.
C13_EmptySandboxList ==
    (last.op \in MetricsAccessors /\ last.pre /\ last.sent = 1 /\ NoSandboxes(last.resp)) =>
        /\ last.exc = NoExc
        /\ last.op = "metrics.all" =>
              (last.ret.kind = "dict" /\ last.ret.snap = EmptySnapshot)
        /\ last.op \in {"metrics.cpu", "metrics.memory", "metrics.disk"} =>
              (last.ret.kind = "value" /\ last.ret.value = "None")
        /\ last.op = "metrics.is_running" =>
              (last.ret.kind = "value" /\ last.ret.value = "False")

\* is_running() returned False for {"sandboxes": []}
C13_Witness ==
    /\ last.op = "metrics.is_running" /\ last.sent = 1
    /\ last.resp.body.result = JSandboxes(<<>>)
    /\ last.exc = NoExc /\ last.ret.value = "False"

\* The entries of a "sandboxes" list that carry this sandbox's name
OwnEntries(list) == { i \in 1..Len(list) : list[i].name = SandboxName }

\* C14 (metrics entry selection): when the result's "sandboxes" list holds
\* an entry named after this sandbox, all() returns that entry, wherever it
\* stands in the list and whatever other entries there are.
C14_EntrySelection ==
    (last.op = "metrics.all" /\ last.sent = 1 /\ Accepted(last.resp)
        /\ last.resp.body.hasResult /\ OwnEntries(last.resp.body.result.sandboxes) # {}) =>
        /\ last.exc = NoExc
        /\ last.ret.kind = "dict"
        /\ last.ret.snap.name = SandboxName

\* A metrics accessor is invoked in this step
MetricsInvoked ==
    pending = Idle /\ (pending'.op \in MetricsAccessors \/ (last' # last /\ last'.op \in MetricsAccessors))

\* The response to a metrics accessor's request lands in this step
MetricsLanded == pending.op \in MetricsAccessors /\ pending' = Idle

\* C19 (no metrics caching): on a Started sandbox with a session every call
\* of all(), cpu(), memory(), disk() or is_running() sends exactly one
\* sandbox.metrics.get request (one when it is invoked, none when its
\* response lands), and what it returns is projected from the response to
\* that request: the first entry of its "sandboxes" list (or {}), or the
\* accessor's field of it.
C19_NoMetricsCaching ==
    [][ /\ (MetricsInvoked /\ is_started /\ session = "open") =>
              /\ nreq' = nreq + 1
              /\ pending'.op \in MetricsAccessors
              /\ pending'.req.method = "sandbox.metrics.get"
              /\ last' = last
        /\ MetricsLanded =>
              /\ nreq' = nreq
              /\ last'.op = pending.op /\ last'.sent = 1
              /\ last'.exc = NoExc =>
                    LET snap == Fetched(last'.resp)
                    IN  IF last'.op = "metrics.all"
                        THEN last'.ret.kind = "dict" /\ last'.ret.snap = snap
                        ELSE /\ last'.ret.kind = "value"
                             /\ last'.ret.value =
                                  GetField(FieldOf(last'.op, snap),
                                           IF last'.op = "metrics.is_running" THEN "False" ELSE "None") ]_vars

\* the second of two accessor calls returned the disk usage of its own response
C19_Witness ==
    /\ nreq = 3 /\ pending = Idle
    /\ last.op = "metrics.disk" /\ last.sent = 1 /\ last.exc = NoExc
    /\ Fetched(last.resp).disk_usage = "1024"
    /\ last.ret.value = "1024"

\* The optional fields of a sandbox.start config
OptionalConfigFields ==
    {"volumes", "ports", "envs", "depends_on", "workdir", "shell", "scripts", "exec"}

\* C15 (optional wire fields are omitted): the config of a sandbox.start
\* request in flight holds image, memory and cpus and no optional field
\* (start takes none from its caller); the params of a sandbox.command.run
\* request in flight hold "timeout" exactly when the caller passed a
\* timeout other than None, and then it is the caller's value.
C15_OptionalFieldsOmitted ==
    /\ pending.req.method = "sandbox.start" =>
          /\ pending.req.config \cap OptionalConfigFields = {}
          /\ pending.req.config = {"image", "memory", "cpus"}
    /\ pending.req.method = "sandbox.command.run" =>
          /\ ("timeout" \in pending.req.params) <=> ~pending.args.timeoutIsNone
          /\ ~pending.args.timeoutIsNone => pending.req.timeout = pending.args.timeout

\* Command.run(..., timeout=0) is in flight with "timeout" among its params
C15_Witness ==
    /\ pending.op = "command.run" /\ pending.pre
    /\ ~pending.args.timeoutIsNone /\ pending.args.timeout = 0
    /\ "timeout" \in pending.req.params

\* The body of a 200 response cannot be decoded as JSON
Undecodable(resp) ==
    resp.kind = "http" /\ resp.status = 200 /\ resp.body.json \in {"bad_content_type", "bad_json"}

\* The five calls that post a request, one per RPC method
RpcCalls == {"start", "stop", "command.run", "metrics.all", "repl.run"}

\* The kind of exception the call `op` raises on the outcome `resp`
ErrorKind(op, args, resp) == Handle([op |-> op, args |-> args], resp).exc.kind

\* C16 (identical error taxonomy): when a call fails on a rejected status,
\* an "error" field, a connection error, a transport timeout or an
\* undecodable body, the kind of error it raises is the kind every one of
\* the five methods (start, stop, command run, metrics get, code run)
\* raises on that same outcome.
C16_IdenticalTaxonomy ==
    (last.sent = 1 /\ (ListedFailure(last.resp) \/ Undecodable(last.resp))) =>
        \A op \in RpcCalls : ErrorKind(op, last.args, last.resp) = last.exc.kind

\* Kinds of exception that report a timeout: the TimeoutError start raises
\* itself, and the asyncio.TimeoutError of the transport
TimeoutKinds == {"TimeoutError", "asyncio.TimeoutError"}

\* C17: when the client-side timeout of a start() on a NotStarted sandbox
\* elapses before the response to sandbox.start arrives, start raises a
\* timeout error, which is of another kind than the error it raises for a
\* connection failure, and the sandbox is still NotStarted.
C17_StartTimeout ==
    /\ (last.op = "start" /\ last.sent = 1 /\ TransportTimeout(last.resp)) =>
          /\ last.exc.kind \in TimeoutKinds
          /\ last.exc.kind # "RuntimeError"
          /\ last.ret.kind = "raised"
          /\ ~last.post /\ ~is_started
    /\ (last.op = "start" /\ last.sent = 1 /\ TransportError(last.resp)) =>
          /\ last.exc.kind = "RuntimeError"
          /\ last.exc.kind \notin TimeoutKinds

\* start(timeout=10) timed out: TimeoutError naming the 10 seconds, NotStarted
C17_Witness ==
    /\ last.op = "start" /\ last.sent = 1 /\ last.args.timeout = 10
    /\ last.resp.kind = "client_timeout"
    /\ last.exc = Exc("TimeoutError", <<"Timed", "out", "waiting", "for", "sandbox", "to", "start", "after", "10", "seconds">>)
    /\ ~is_started

\* The responses to start and stop that were accepted, in the order they landed
AcceptedLifecycle ==
    SelectSeq(tasks.landed, LAMBDA e : e.op \in {"start", "stop"} /\ e.accepted)

\* C18 (unsynchronised lifecycle race): whatever the interleaving of
\* overlapping start and stop calls on one instance, the sandbox is
\* Started exactly when the last accepted response to land was a start
\* response (and NotStarted when it was a stop response, or when none has
\* been accepted yet), in whatever order the requests were issued.
C18_LastLandedWins ==
    IF AcceptedLifecycle = <<>>
    THEN ~is_started
    ELSE is_started <=> (AcceptedLifecycle[Len(AcceptedLifecycle)].op = "start")

\* start (request 2) and stop (request 3) overlapped; the stop response
\* was accepted first, the response to the start issued before it landed
\* last: Started
C18_Witness ==
    /\ tasks.flight = <<>> /\ pending = Idle
    /\ Len(tasks.landed) = 3
    /\ tasks.landed[2] = [op |-> "stop", seq |-> 3, accepted |-> TRUE]
    /\ tasks.landed[3] = [op |-> "start", seq |-> 2, accepted |-> TRUE]
    /\ is_started

\* The result a Command.run / metrics all() hands back for an accepted response
ReturnsResult(call) ==
    /\ call.exc = NoExc
    /\ call.op = "command.run" =>
          (call.ret.kind = "CommandExecution" /\ call.ret.data = GetResult(call.resp.body, JDict))
    /\ call.op = "metrics.all" =>
          (call.ret.kind = "dict" /\ call.ret.snap = Fetched(call.resp))

\* C20: an operational call that passed the started check is neither
\* cancelled nor failed by a stop() that completes while its request is in
\* flight: every request sent is either still awaited or has landed, and
\* an operational call whose response is accepted returns the server's
\* result, also when the sandbox is NotStarted by then.
C20_InFlightCallSurvivesStop ==
    /\ Len(tasks.flight) + Len(tasks.landed) + (IF pending = Idle THEN 0 ELSE 1) = nreq
    /\ (last.op \in OperationalCalls /\ last.sent = 1 /\ Accepted(last.resp)) =>
          ReturnsResult(last)

\* Command.run (request 2) was in flight when stop (request 3) was
\* accepted; its response landed afterwards and it returned the result
C20_Witness ==
    /\ tasks.landed = << [op |-> "start", seq |-> 1, accepted |-> TRUE],
                         [op |-> "stop", seq |-> 3, accepted |-> TRUE],
                         [op |-> "command.run", seq |-> 2, accepted |-> TRUE] >>
    /\ ~is_started
    /\ last.op = "command.run" /\ last.pre /\ ~last.post
    /\ last.exc = NoExc /\ last.ret.kind = "CommandExecution"

\* The kinds of error of the taxonomy: communication and server errors
\* (RuntimeError), timeout errors
TypedKinds == {"RuntimeError"} \cup TimeoutKinds

\* C21 (start is callable in any state): a start() invoked on any
\* instance, one that holds no session included (constructed directly, or
\* left by the scope of create), returns or raises a communication, server
\* or timeout error; it raises nothing else.
C21_StartCallableAnywhere ==
    (last.op = "start" /\ last.exc # NoExc) => last.exc.kind \in TypedKinds

\* The exception raised by the start() of create's entry is in flight
\* through the finally clause (the other exceptions that can be in flight
\* there are none, after the block returned, and the caller's own)
EntryStartFailed ==
    scope \in {"finally", "closing"} /\ inflight \notin {NoExc, CallerError}

C23_StartedHasSession ==
    scope # "direct" =>
        /\ is_started => session = "open"
        /\ session = "None" => ~is_started

\* inside the block the caller stopped the sandbox and started it again
C23_Witness ==
    /\ scope = "body" /\ is_started /\ session = "open"
    /\ nreq = 3
    /\ last.op = "start" /\ last.by = "caller" /\ last.sent = 1 /\ last.exc = NoExc

\* An operational call is invoked in this step, or its response lands
OperationalStep ==
    \/ pending = Idle /\ (pending'.op \in OperationalCalls
                            \/ (last' # last /\ last'.op \in OperationalCalls))
    \/ pending.op \in OperationalCalls /\ pending' = Idle

\* C24 (operational calls have no effect on client state): Command.run,
\* the Metrics accessors, PythonSandbox.run and NodeSandbox.run, when they
\* are invoked and when their response lands, whether they return or raise,
\* leave the lifecycle flag, the session and the instance (its class; its
\* namespace and name are written by __init__ only) as they were.
C24_OperationalFrame ==
    [][ OperationalStep =>
            /\ is_started' = is_started
            /\ session' = session
            /\ variant' = variant
            /\ scope' = scope ]_vars

\* Command.run failed on a rejected status: the sandbox is still Started
\* and holds its session
C24_Witness ==
    /\ last.op = "command.run" /\ last.sent = 1
    /\ StatusRejected(last.resp) /\ last.exc.kind = "RuntimeError"
    /\ last.pre /\ is_started /\ session = "open"

\* A task invokes start() in this step, other calls being in flight or not
StartInvokedByTask == StartInvoked /\ tasks' = tasks

\* The start() calls in flight
StartsInFlight == { k \in 1..Len(tasks.flight) : tasks.flight[k].op = "start" }

\* C25: a start() in flight leaves the flag False until its response is
\* accepted (there is no "Starting" state), so a start() invoked while
\* NotStarted sends its own sandbox.start request also when other start
\* calls are in flight; only a start() invoked while Started sends none.
C25_OverlappingStarts ==
    [][ /\ (StartInvokedByTask /\ ~is_started) =>
              /\ nreq' = nreq + 1
              /\ pending'.op = "start" /\ pending'.req.method = "sandbox.start"
              /\ ~is_started'
        /\ (StartInvokedByTask /\ is_started) =>
              /\ nreq' = nreq /\ pending' = Idle
              /\ last'.sent = 0 /\ last'.exc = NoExc ]_vars

\* two start() calls overlap on a NotStarted instance: two sandbox.start
\* requests are in flight
C25_Witness ==
    /\ ~is_started /\ nreq = 2
    /\ Len(tasks.flight) = 2 /\ StartsInFlight = {1, 2}
    /\ ~tasks.flight[1].pre /\ ~tasks.flight[2].pre
    /\ tasks.flight[1].req.method = "sandbox.start"
    /\ tasks.flight[2].req.method = "sandbox.start"
    /\ tasks.landed = <<>>

\* A request of the call `op` is in flight
InFlight(op) ==
    pending.op = op \/ \E k \in 1..Len(tasks.flight) : tasks.flight[k].op = op

\* The sandbox.start and sandbox.stop requests sent so far
LifecycleSent ==
    Len(SelectSeq(tasks.flight, LAMBDA c : c.op \in {"start", "stop"}))
    + Len(SelectSeq(tasks.landed, LAMBDA e : e.op \in {"start", "stop"}))
    + (IF pending.op \in {"start", "stop"} THEN 1 ELSE 0)

\* A task invokes stop() in this step
StopInvokedByTask == StopInvoked /\ tasks' = tasks

\* C26: with one start call and one stop call only, a sandbox.start and a
\* sandbox.stop request are never in flight together.  While the one
\* start request is in flight the sandbox is NotStarted and a stop() returns
\* at once without a request; while the stop request that followed the one
\* start is in flight the sandbox is Started and a start() returns at once
\* without a request.  A start and a stop request are in flight together
\* only after at least three start/stop requests were sent.
C26_StartStopExclusion ==
    [][ /\ (InFlight("start") /\ LifecycleSent = 1) => ~is_started
        /\ (InFlight("stop") /\ LifecycleSent = 2) => is_started
        /\ (StopInvokedByTask /\ InFlight("start") /\ LifecycleSent = 1) =>
              /\ nreq' = nreq /\ pending' = Idle
              /\ last'.op = "stop" /\ last'.sent = 0 /\ last'.exc = NoExc
        /\ (StartInvokedByTask /\ InFlight("stop") /\ LifecycleSent = 2) =>
              /\ nreq' = nreq /\ pending' = Idle
              /\ last'.op = "start" /\ last'.sent = 0 /\ last'.exc = NoExc
        /\ (InFlight("start")' /\ InFlight("stop")') => LifecycleSent' >= 3 ]_vars

\* stop() returned at once while the only start request was in flight
C26_Witness ==
    /\ Len(tasks.flight) = 1 /\ tasks.flight[1].op = "start" /\ tasks.landed = <<>>
    /\ nreq = 1 /\ pending = Idle
    /\ last.op = "stop" /\ ~last.pre /\ last.sent = 0 /\ last.exc = NoExc
    /\ ~is_started

============================================================================
